---- MODULE Spec2Model ----
(***************************************************************************)
(* Transaction-ingestion gateway: TransactionService.submitTransaction,    *)
(* StateService, QueueService (BullMQ queue keyed by transaction id) and   *)
(* TransactionWorker.processTransaction with its GET-before-POST /         *)
(* GET-after-POST-failure protocol against a non-idempotent downstream.    *)
(* One transaction id is followed through the API, the queue, the worker   *)
(* and the downstream posting service.                                     *)
(***************************************************************************)
EXTENDS Integers, FiniteSets, Sequences, TLC

\* ---------------------------------------------------------------- bounds
NumClients == 2        \* concurrent HTTP requests for the id
MaxSubmits == 3        \* Submit calls in one behaviour
MaxCrashes == 1        \* worker crashes in one behaviour
MaxExpiries == 1       \* expiries of the 300 s idempotency marker
MaxRemovals == 1       \* retention removals of a finished job
MaxEnqueueFails == 1   \* queue.add calls that fail in one behaviour

maxRetries == 3        \* config.queue.maxRetries as set by MAX_RETRIES
MaxStoreFails == 2     \* executions in which a call of the state store fails
NumWriters == 2        \* concurrent callers of StateService.setState for one id
MaxClock == 3          \* instants new Date() can return
MaxWrites == 3         \* setState calls for the id
MaxStarts == 3         \* WorkerPool.start calls
workerConcurrency == 2 \* config.queue.workerConcurrency as set by WORKER_CONCURRENCY

Clients == 1 .. NumClients

\* TransactionStatus
PENDING == "pending"
PROCESSING == "processing"
COMPLETED == "completed"
FAILED == "failed"

Terminal == {COMPLETED, FAILED}

\* no record under the key transaction:state:{id}
NoState == [status |-> "none", retryCount |-> {}, error |-> "none"]

\* request bodies by what transactionSchema looks at: length of id, amount,
\* length of currency, length of description, timestamp is an ISO 8601
\* datetime, a required field is missing
Requests ==
  [idLen : {0, 1}, amount : {-1, 0, 1}, currencyLen : {2, 3, 4},
   descLen : {0, 1}, isoTimestamp : BOOLEAN, missingField : BOOLEAN]

\* transactionSchema (zod): min(1), positive(), length(3), min(1), datetime()
transactionSchemaLax(r) ==
  /\ ~r.missingField
  /\ r.idLen >= 1
  /\ r.amount >= 0
  /\ r.currencyLen = 3
  /\ r.descLen >= 1
  /\ r.isoTimestamp
transactionSchema(r) ==
  /\ ~r.missingField
  /\ r.idLen >= 1
  /\ r.amount > 0
  /\ r.currencyLen = 3
  /\ r.descLen >= 1
  /\ r.isoTimestamp

\* messages of the responses
ACCEPTED_MSG == "Transaction accepted for processing"
QUEUED_MSG == "Transaction already queued"
PROCESSED_MSG == "Transaction already processed"
INVALID_MSG == "Validation failed"

\* no response sent yet
NoResponse == [code |-> 0, status |-> "none", message |-> "none"]

\* POST /api/transactions handler: reply.code(202).send({...result,
\* message: result.message || 'Transaction accepted for processing'})
replyCodeByStatus(status, message) ==
  IF message = PROCESSED_MSG THEN 200 ELSE 202
replyCode(status, message) == 202
reply(status, message) ==
  [code |-> replyCode(status, message), status |-> status,
   message |-> IF message = "none" THEN ACCEPTED_MSG ELSE message]

\* validateTransaction: reply.code(400).send({error: 'Validation failed', ...})
invalidReply == [code |-> 400, status |-> "none", message |-> INVALID_MSG]

\* the handler's catch: reply.code(500).send({error: 'Failed to submit
\* transaction', message})
ERROR_MSG == "Failed to submit transaction"
errorReply == [code |-> 500, status |-> "none", message |-> ERROR_MSG]

VARIABLES
  state,          \* the record under transaction:state:{id}
  marker,         \* TRUE iff the key idempotency:{id} exists
  job,            \* the BullMQ job whose jobId is the transaction id
  seeded,         \* a record put downstream by another party before Submit
  posts,          \* POSTs of the gateway that took effect downstream
  wpc,            \* position of the worker execution holding the job
  cpc,            \* position of each HTTP request inside submitTransaction
  observed,       \* status returned by the latest getTransactionStatus
  resp,           \* the latest response of POST /api/transactions
  req,            \* shape of the request body the client sends
  dup,            \* requests that began while the id was already in flight
  submits,        \* submitTransaction calls started
  pendingWrites,  \* submitTransaction calls that wrote the pending record
  postFails,      \* POSTs that failed without writing downstream
  crashes,        \* worker crashes so far
  expiries,       \* marker expiries so far
  removals,       \* retention removals so far
  attempt,        \* downstream calls made by the execution in progress
  postedTx,       \* transaction of the record the gateway's POST created
  accepted,       \* transaction of the first accepted Submit
  enqueueFails,   \* queue.add calls that failed so far
  call,           \* the latest call of the posting client on its own
  delays,         \* the worker's wait before verifying and the queue's backoff
  phase,          \* where the process is in gracefulShutdown
  storeFails,     \* executions of the job in which a StateService call failed
  pool,           \* the WorkerPool and the jobs its workers are processing
  keyspace,       \* keys, jobs and records of several transaction ids
  view,           \* the latest response built from a stored record
  stamps          \* createdAt / updatedAt under concurrent setState calls

vars == <<state, marker, job, seeded, posts, wpc, cpc, observed, resp, req, dup,
          submits, pendingWrites, postFails, crashes, expiries,
          removals, attempt, postedTx, accepted, enqueueFails, call, delays,
          phase, storeFails, pool, keyspace, view, stamps>>

\* ------------------------------------------------------------ StateService

\* StateService.setState: the record written; retryCount and error are kept
\* only when the caller passes them (retryCount is {} when undefined).
setState(status, error, retryCount) ==
  [status |-> status, retryCount |-> retryCount, error |-> error]

\* submitTransaction line 167: status = state?.status || PENDING
queuedStatus(s) == IF s.status = "none" THEN PENDING ELSE s.status

\* StateService.isProcessed
isProcessedFailedOnly(s) == s.status = FAILED
isProcessed(s) == s.status = COMPLETED \/ s.status = FAILED

\* ------------------------------------------------------------ QueueService

NoJob == [state |-> "none", attemptsMade |-> 0, attemptNumber |-> 0, transaction |-> 0]

\* QueueService.enqueue: queue.add with jobId = transaction.id is ignored
\* while a job with that id exists; otherwise a waiting job is created whose
\* data carries the transaction and the attemptNumber given by the caller.
enqueueStale(j, transaction, attemptNumber) ==
  IF j.state = "none"
    THEN [state |-> "waiting", attemptsMade |-> 0,
          attemptNumber |-> attemptNumber + 1, transaction |-> transaction]
    ELSE j
enqueueOverwrite(j, transaction, attemptNumber) ==
  [state |-> IF j.state = "active" THEN "active" ELSE "waiting", attemptsMade |-> 0,
   attemptNumber |-> attemptNumber, transaction |-> transaction]
enqueue(j, transaction, attemptNumber) ==
  IF j.state = "none"
    THEN [state |-> "waiting", attemptsMade |-> 0,
          attemptNumber |-> attemptNumber, transaction |-> transaction]
    ELSE j

\* defaultJobOptions.attempts: where a job goes when its processor threw
afterFailureExtra(j) ==
  IF j.attemptsMade + 1 <= maxRetries
    THEN [j EXCEPT !.state = "delayed", !.attemptsMade = @ + 1]
    ELSE [j EXCEPT !.state = "failed", !.attemptsMade = @ + 1]
afterFailure(j) ==
  IF j.attemptsMade + 1 < maxRetries
    THEN [j EXCEPT !.state = "delayed", !.attemptsMade = @ + 1]
    ELSE [j EXCEPT !.state = "failed", !.attemptsMade = @ + 1]

\* ---------------------------------------------------------- PostingService

\* records the downstream holds for the id
Records == posts + (IF seeded THEN 1 ELSE 0)

\* PostingService.getTransaction: 200 -> record, 404 -> null, else throws
getTransaction == IF Records > 0 THEN {"present", "error"} ELSE {"absent", "error"}

\* what the downstream, or the network in front of it, gives to one fetch: a
\* response with a status and a body that is JSON or not, no response within
\* the timeout (the AbortController aborts), or a refused connection
HttpStatuses == {200, 201, 204, 301, 400, 404, 500, 503}
Answers ==
  [kind : {"response"}, status : HttpStatuses, json : BOOLEAN]
    \cup {[kind |-> k, status |-> 0, json |-> FALSE] : k \in {"timeout", "refused"}}

\* Response.ok
ok(a) == a.status >= 200 /\ a.status <= 299

\* PostingService.getTransaction over one answer: 404 -> null, !ok -> throws,
\* otherwise response.json(), which throws when the body is not JSON
getTransactionResultNo404(a) ==
  IF a.kind # "response" THEN "error"
  ELSE IF ~ok(a) THEN "error"
  ELSE IF a.json THEN "present" ELSE "error"
getTransactionResult(a) ==
  IF a.kind # "response" THEN "error"
  ELSE IF a.status = 404 THEN "absent"
  ELSE IF ~ok(a) THEN "error"
  ELSE IF a.json THEN "present" ELSE "error"

\* PostingService.postTransaction over one answer
postTransactionResult(a) ==
  IF a.kind # "response" THEN "error"
  ELSE IF ~ok(a) THEN "error"
  ELSE IF a.json THEN "success" ELSE "error"

\* no call of the client yet
NoCall == [method |-> "none", answer |-> [kind |-> "none", status |-> 0, json |-> FALSE],
           result |-> "none", requests |-> 0]

\* ------------------------------------------------------ TransactionWorker

\* processTransaction line 52: if (existing) -> completed without POST
skipPostMutant(existing) == FALSE
skipPostInverted(existing) == existing = "absent"
skipPost(existing) == existing = "present"

\* processTransaction line 71: if (verified) -> completed
verifiedWrittenMutant(verified) == verified # "error"
verifiedWrittenNever(verified) == FALSE
verifiedWritten(verified) == verified = "present"

\* processTransaction line 86: attemptNumber < config.queue.maxRetries
shouldRetry(attemptNumber) == attemptNumber < maxRetries

\* lines 50, 69: getTransaction rejects (a timeout, a connection error, a
\* status that is neither ok nor 404), so the await throws
thrownNever(result) == FALSE
thrown(result) == result = "error"

\* utils/retry calculateBackoffDelay: baseDelayMs * Math.pow(2, attemptNumber)
baseDelayMs == 1000
calculateBackoffDelay(attemptNumber, base) == base * 2^attemptNumber

\* QueueService.enqueue backoff {type: 'exponential', delay: 1000}: the queue
\* delays the retry after the n-th failed attempt by delay * 2^(n - 1)
backoffDelay == 1000
exponentialBackoff(attemptsMade) == backoffDelay * 2^(attemptsMade - 1)

\* no wait of the worker in progress, no retry delayed yet
NoDelays == [verify |-> 0, backoff |-> <<>>]

\* no call to the downstream made yet by the execution in progress
NoAttempt == [gets |-> 0, posts |-> 0, lastGet |-> "none"]

\* postTransaction(transaction): the body posted is the job's transaction
postBodyLatest(j) == NumClients
postBody(j) == j.transaction

\* the id was accepted and its job is still with the queue or a worker
InFlight ==
  /\ job.state \in {"waiting", "delayed", "active"}
  /\ state.status \in {PENDING, PROCESSING}

\* WorkerPool before start(): this.workers = []
NoPool == [workers |-> 0, live |-> 0, stopping |-> FALSE, closing |-> 0, active |-> 0, starts |-> 0]

\* transaction ids: strings of characters, any non-empty string passes
\* transactionSchema
Ids == {<<"a">>, <<"b">>, <<"a", "b">>, <<"a", "#", "b">>}

\* utils/idempotency generateIdempotencyKey: `idempotency:${transactionId}`
generateIdempotencyKeyFixed(transactionId) == <<"idempotency:">>
generateIdempotencyKey(transactionId) == <<"idempotency:">> \o transactionId

\* StateService: key = `${this.keyPrefix}${transactionId}`
stateKey(transactionId) == <<"transaction:state:">> \o transactionId

\* PostingService.getTransaction: fetch(`${baseUrl}/transactions/${id}`); the
\* id is not encoded, so the request path ends where a fragment begins
requestPath(transactionId) ==
  LET marks == {i \in 1 .. Len(transactionId) : transactionId[i] = "#"}
  IN  IF marks = {} THEN transactionId
      ELSE SubSeq(transactionId, 1, (CHOOSE i \in marks : \A k \in marks : i <= k) - 1)

\* a key-value store after SET key value
put(store, key, value) ==
  [k \in DOMAIN store \cup {key} |-> IF k = key THEN value ELSE store[k]]

\* a key-value store after DEL key
del(store, key) == [k \in DOMAIN store \ {key} |-> store[k]]

\* GET key: "nil" when the key is not there
get(store, key) == IF key \in DOMAIN store THEN store[key] ELSE "nil"

\* nothing stored under any id
NoKeys == [redis |-> <<>>, jobs |-> <<>>, downstream |-> {}, last |-> <<>>]

\* no response built yet
NoView == [source |-> "none", status |-> "none", submittedAt |-> 0, completedAt |-> {}]

\* concurrent callers of setState(id, ...): requests and the worker
Writers == 1 .. NumWriters

\* no setState call of the writer in progress
NoSetState == [pc |-> "idle", now |-> 0, status |-> "none", existing |-> 0]

\* no record written yet, no setState call in progress
NoStamps == [record |-> <<>>, clock |-> 1, writes |-> 0,
             calls |-> [w \in Writers |-> NoSetState]]

Init ==
  /\ state = NoState
  /\ marker = FALSE
  /\ job = NoJob
  /\ seeded \in BOOLEAN
  /\ posts = 0
  /\ wpc = "idle"
  /\ cpc = [c \in Clients |-> "idle"]
  /\ observed = "unseen"
  /\ resp = NoResponse
  /\ req \in Requests
  /\ dup = [c \in Clients |-> FALSE]
  /\ submits = 0
  /\ pendingWrites = 0
  /\ postFails = 0
  /\ crashes = 0
  /\ expiries = 0
  /\ removals = 0
  /\ attempt = NoAttempt
  /\ postedTx = 0
  /\ accepted = 0
  /\ enqueueFails = 0
  /\ call = NoCall
  /\ delays = NoDelays
  /\ phase = "running"
  /\ storeFails = {}
  /\ pool = NoPool
  /\ keyspace = NoKeys
  /\ view = NoView
  /\ stamps = NoStamps

\* ------------------------------------------- TransactionService.submitTransaction

UNCHANGED_worker ==
  UNCHANGED <<job, seeded, posts, wpc, postFails, crashes, removals, attempt, postedTx, delays>>
UNCHANGED_parts == UNCHANGED <<call, phase, storeFails, pool, keyspace, view, stamps>>
UNCHANGED_hist == UNCHANGED <<accepted, enqueueFails>> /\ UNCHANGED_parts
UNCHANGED_obs == UNCHANGED <<observed, resp, req, dup>>

\* line 128: existingProcessed = await stateService.isProcessed(id)
SubmitIsProcessed(c) ==
  /\ cpc[c] = "idle"
  /\ transactionSchema(req)
  /\ submits < MaxSubmits
  /\ submits' = submits + 1
  /\ cpc' = [cpc EXCEPT ![c] = IF isProcessed(state) THEN "replay" ELSE "exists"]
  /\ dup' = [dup EXCEPT ![c] = InFlight]
  /\ UNCHANGED <<state, marker, pendingWrites, expiries>>
  /\ UNCHANGED_worker /\ UNCHANGED <<observed, resp, req>>
  /\ UNCHANGED_hist

\* lines 130-150: getState and the 'already processed' response
SubmitReplay(c) ==
  /\ cpc[c] = "replay"
  /\ resp' = reply(state.status, PROCESSED_MSG)
  /\ cpc' = [cpc EXCEPT ![c] = "idle"]
  /\ UNCHANGED <<state, marker, submits, pendingWrites, expiries>>
  /\ UNCHANGED_worker /\ UNCHANGED <<observed, req>>
  /\ dup' = [dup EXCEPT ![c] = FALSE]
  /\ UNCHANGED_hist

\* line 153: isInQueue = await redis.exists(idempotencyKey)
SubmitExists(c) ==
  /\ cpc[c] = "exists"
  /\ cpc' = [cpc EXCEPT ![c] = IF marker THEN "queued" ELSE "setex"]
  /\ UNCHANGED <<state, marker, submits, pendingWrites, expiries>>
  /\ UNCHANGED_worker /\ UNCHANGED_obs /\ UNCHANGED_hist

\* line 157: redis.setex(idempotencyKey, 300, '1')
SubmitSetex(c) ==
  /\ cpc[c] = "setex"
  /\ marker' = TRUE
  /\ cpc' = [cpc EXCEPT ![c] = "setPending"]
  /\ UNCHANGED <<state, submits, pendingWrites, expiries>>
  /\ UNCHANGED_worker /\ UNCHANGED_obs /\ UNCHANGED_hist

\* line 160: stateService.setState(id, PENDING)
SubmitSetPending(c) ==
  /\ cpc[c] = "setPending"
  /\ state' = setState(PENDING, "none", {})
  /\ pendingWrites' = pendingWrites + 1
  /\ cpc' = [cpc EXCEPT ![c] = "enqueue"]
  /\ UNCHANGED <<marker, submits, expiries>>
  /\ UNCHANGED_worker /\ UNCHANGED_obs /\ UNCHANGED_hist

\* line 163: queueService.enqueue(transaction, 0), then the 'pending' response
SubmitEnqueue(c) ==
  /\ cpc[c] = "enqueue"
  /\ job' = enqueue(job, c, 0)
  /\ resp' = reply(PENDING, "none")
  /\ accepted' = IF accepted = 0 THEN c ELSE accepted
  /\ cpc' = [cpc EXCEPT ![c] = "idle"]
  /\ UNCHANGED <<state, marker, submits, pendingWrites, expiries>>
  /\ UNCHANGED <<seeded, posts, wpc, postFails, crashes, removals>>
  /\ UNCHANGED <<attempt, postedTx, enqueueFails, delays>> /\ UNCHANGED_parts
  /\ UNCHANGED <<observed, req>>
  /\ dup' = [dup EXCEPT ![c] = FALSE]

\* line 163 throws (queue.add fails): submitTransaction rejects and the
\* handler's catch answers
SubmitEnqueueFails(c) ==
  /\ cpc[c] = "enqueue"
  /\ enqueueFails < MaxEnqueueFails
  /\ enqueueFails' = enqueueFails + 1
  /\ resp' = errorReply
  /\ cpc' = [cpc EXCEPT ![c] = "idle"]
  /\ dup' = [dup EXCEPT ![c] = FALSE]
  /\ UNCHANGED <<state, marker, submits, pendingWrites, expiries>>
  /\ UNCHANGED_worker /\ UNCHANGED <<observed, req, accepted>> /\ UNCHANGED_parts

\* lines 164-187: getState and the 'already queued' response
SubmitQueued(c) ==
  /\ cpc[c] = "queued"
  /\ resp' = reply(queuedStatus(state), QUEUED_MSG)
  /\ cpc' = [cpc EXCEPT ![c] = "idle"]
  /\ UNCHANGED <<state, marker, submits, pendingWrites, expiries>>
  /\ UNCHANGED_worker /\ UNCHANGED <<observed, req>>
  /\ dup' = [dup EXCEPT ![c] = FALSE]
  /\ UNCHANGED_hist

\* validateTransaction preHandler: the body fails transactionSchema, 400 is
\* sent and the handler is not run
SubmitInvalid(c) ==
  /\ cpc[c] = "idle"
  /\ ~transactionSchema(req)
  /\ resp' = invalidReply
  /\ UNCHANGED <<state, marker, cpc, submits, pendingWrites, expiries>>
  /\ UNCHANGED_worker /\ UNCHANGED <<observed, req, dup>>
  /\ UNCHANGED_hist

\* TransactionService.getTransactionStatus: null when no record
statusResponseStale(s) == IF s.status = "none" THEN PENDING ELSE s.status
statusResponse(s) == s.status
getTransactionStatus ==
  /\ observed' = statusResponse(state)
  /\ observed' # observed
  /\ UNCHANGED <<state, marker, cpc, submits, pendingWrites, expiries, resp, req, dup>>
  /\ UNCHANGED_worker /\ UNCHANGED_hist

\* the 300 s TTL of the idempotency marker runs out
ExpireMarker ==
  /\ marker
  /\ expiries < MaxExpiries
  /\ marker' = FALSE
  /\ expiries' = expiries + 1
  /\ UNCHANGED <<state, cpc, submits, pendingWrites>>
  /\ UNCHANGED_worker /\ UNCHANGED_obs /\ UNCHANGED_hist

\* ------------------------------------------------------------------ queue

UNCHANGED_api ==
  /\ UNCHANGED <<marker, cpc, submits, pendingWrites, expiries, accepted, enqueueFails>>
  /\ UNCHANGED_parts

\* the Worker reserves the waiting job and calls processTransaction(job)
Deliver ==
  /\ job.state = "waiting"
  /\ wpc = "idle"
  /\ job' = [job EXCEPT !.state = "active"]
  /\ wpc' = "setProcessing"
  /\ UNCHANGED <<state, seeded, posts, postFails, crashes, removals, attempt, postedTx, delays>>
  /\ UNCHANGED_api /\ UNCHANGED_obs

\* the backoff delay of a delayed job has passed
PromoteDelayed ==
  /\ job.state = "delayed"
  /\ job' = [job EXCEPT !.state = "waiting"]
  /\ UNCHANGED <<state, seeded, posts, wpc, postFails, crashes, removals, attempt, postedTx, delays>>
  /\ UNCHANGED_api /\ UNCHANGED_obs

\* removeOnComplete / removeOnFail: a finished job leaves the queue
RemoveJob ==
  /\ job.state \in {"completed", "failed"}
  /\ removals < MaxRemovals
  /\ job' = NoJob
  /\ removals' = removals + 1
  /\ delays' = NoDelays
  /\ UNCHANGED <<state, seeded, posts, wpc, postFails, crashes, attempt, postedTx>>
  /\ UNCHANGED_api /\ UNCHANGED_obs

\* the process running the attempt dies; the stalled job goes back to waiting
Crash ==
  /\ wpc # "idle"
  /\ crashes < MaxCrashes
  /\ crashes' = crashes + 1
  /\ wpc' = "idle"
  /\ job' = [job EXCEPT !.state = "waiting"]
  /\ attempt' = NoAttempt
  /\ delays' = [delays EXCEPT !.verify = 0]
  /\ UNCHANGED <<state, seeded, posts, postFails, removals, postedTx>>
  /\ UNCHANGED_api /\ UNCHANGED_obs

\* ------------------------------------- TransactionWorker.processTransaction

UNCHANGED_down == UNCHANGED <<seeded, posts, postFails, postedTx>>

\* line 47: setState(id, PROCESSING, undefined, attemptNumber)
WorkerSetProcessing ==
  /\ wpc = "setProcessing"
  /\ state' = setState(PROCESSING, "none", {job.attemptNumber})
  /\ wpc' = "get"
  /\ UNCHANGED <<job, crashes, removals, attempt, delays>>
  /\ UNCHANGED_down /\ UNCHANGED_api /\ UNCHANGED_obs

\* lines 50-56: existing = await postingService.getTransaction(id)
WorkerGet ==
  /\ wpc = "get"
  /\ \E existing \in getTransaction :
       /\ wpc' = IF thrown(existing) THEN "catch"
                 ELSE IF skipPost(existing) THEN "setCompleted" ELSE "post"
       /\ attempt' = [attempt EXCEPT !.gets = @ + 1, !.lastGet = existing]
  /\ UNCHANGED <<state, job, crashes, removals, delays>>
  /\ UNCHANGED_down /\ UNCHANGED_api /\ UNCHANGED_obs

\* line 60: postingService.postTransaction: success, an error before the
\* downstream wrote, or an error after it wrote
WorkerPost ==
  /\ wpc = "post"
  /\ \/ /\ posts' = posts + 1
        /\ postedTx' = postBody(job)
        /\ wpc' = "setCompleted"
        /\ UNCHANGED postFails
     \/ /\ postFails' = postFails + 1
        /\ wpc' = "verify"
        /\ UNCHANGED <<posts, postedTx>>
     \/ /\ posts' = posts + 1
        /\ postedTx' = postBody(job)
        /\ wpc' = "verify"
        /\ UNCHANGED postFails
  /\ attempt' = [attempt EXCEPT !.posts = @ + 1]
  /\ UNCHANGED <<state, job, seeded, crashes, removals, delays>>
  /\ UNCHANGED_api /\ UNCHANGED_obs

\* lines 66-80: sleep(calculateBackoffDelay(attemptNumber)), then the
\* verification GET; absent rethrows postError, an error of the GET is thrown
WorkerVerify ==
  /\ wpc = "verify"
  /\ \E verified \in getTransaction :
       /\ wpc' = IF thrown(verified) THEN "catch"
                 ELSE IF verifiedWritten(verified) THEN "setCompleted" ELSE "catch"
       /\ attempt' = [attempt EXCEPT !.gets = @ + 1, !.lastGet = verified]
  /\ delays' = [delays EXCEPT !.verify = calculateBackoffDelay(job.attemptNumber, baseDelayMs)]
  /\ UNCHANGED <<state, job, crashes, removals>>
  /\ UNCHANGED_down /\ UNCHANGED_api /\ UNCHANGED_obs

\* lines 54, 61, 74: setState(id, COMPLETED)
WorkerSetCompleted ==
  /\ wpc = "setCompleted"
  /\ state' = setState(COMPLETED, "none", {})
  /\ wpc' = "return"
  /\ UNCHANGED <<job, crashes, removals, attempt, delays>>
  /\ UNCHANGED_down /\ UNCHANGED_api /\ UNCHANGED_obs

\* lines 82-105: the catch branch
WorkerCatch ==
  /\ wpc = "catch"
  /\ state' = IF shouldRetry(job.attemptNumber)
                THEN setState(PROCESSING, "Retrying", {job.attemptNumber + 1})
                ELSE setState(FAILED, "Failed after", {job.attemptNumber})
  /\ wpc' = "throw"
  /\ UNCHANGED <<job, crashes, removals, attempt, delays>>
  /\ UNCHANGED_down /\ UNCHANGED_api /\ UNCHANGED_obs

\* processTransaction returned: the queue moves the job to completed
WorkerReturn ==
  /\ wpc = "return"
  /\ job' = [job EXCEPT !.state = "completed"]
  /\ wpc' = "idle"
  /\ attempt' = NoAttempt
  /\ delays' = [delays EXCEPT !.verify = 0]
  /\ UNCHANGED <<state, crashes, removals>>
  /\ UNCHANGED_down /\ UNCHANGED_api /\ UNCHANGED_obs

\* processTransaction threw: the queue retries with backoff or fails the job
WorkerThrow ==
  /\ wpc = "throw"
  /\ job' = afterFailure(job)
  /\ wpc' = "idle"
  /\ attempt' = NoAttempt
  /\ delays' = [verify |-> 0,
                backoff |-> IF job'.state = "delayed"
                              THEN Append(delays.backoff, exponentialBackoff(job'.attemptsMade))
                              ELSE delays.backoff]
  /\ UNCHANGED <<state, crashes, removals>>
  /\ UNCHANGED_down /\ UNCHANGED_api /\ UNCHANGED_obs

WorkerStep ==
  \/ WorkerSetProcessing \/ WorkerGet \/ WorkerPost \/ WorkerVerify
  \/ WorkerSetCompleted \/ WorkerCatch \/ WorkerReturn \/ WorkerThrow

SubmitStep(c) ==
  \/ SubmitReplay(c) \/ SubmitExists(c) \/ SubmitSetex(c)
  \/ SubmitSetPending(c) \/ SubmitEnqueue(c) \/ SubmitQueued(c)
  \/ SubmitEnqueueFails(c)

Next ==
  \/ \E c \in Clients : SubmitIsProcessed(c)
  \/ \E c \in Clients : SubmitReplay(c)
  \/ \E c \in Clients : SubmitExists(c)
  \/ \E c \in Clients : SubmitSetex(c)
  \/ \E c \in Clients : SubmitSetPending(c)
  \/ \E c \in Clients : SubmitEnqueue(c)
  \/ \E c \in Clients : SubmitEnqueueFails(c)
  \/ \E c \in Clients : SubmitQueued(c)
  \/ \E c \in Clients : SubmitInvalid(c)
  \/ getTransactionStatus
  \/ ExpireMarker
  \/ Deliver
  \/ PromoteDelayed
  \/ RemoveJob
  \/ Crash
  \/ WorkerSetProcessing
  \/ WorkerGet
  \/ WorkerPost
  \/ WorkerVerify
  \/ WorkerSetCompleted
  \/ WorkerCatch
  \/ WorkerReturn
  \/ WorkerThrow

Spec == Init /\ [][Next]_vars

\* the queue and the workers are scheduled fairly, every started HTTP request
\* runs to its response; crashes, expiries and new requests are not forced
FairSpec ==
  /\ Spec
  /\ WF_vars(Deliver)
  /\ WF_vars(PromoteDelayed)
  /\ WF_vars(WorkerStep)
  /\ \A c \in Clients : WF_vars(SubmitStep(c))

\* the start of a part studied on its own: nothing seeded downstream, one
\* valid request body
Standalone ==
  /\ Init
  /\ ~seeded
  /\ req = [idLen |-> 1, amount |-> 1, currencyLen |-> 3, descLen |-> 1,
            isoTimestamp |-> TRUE, missingField |-> FALSE]

\* ------------------------------------- the worker with a failing state store

\* one more execution of the job may meet a failure of the state store
StoreMayFail ==
  /\ job.attemptsMade \notin storeFails
  /\ Cardinality(storeFails) < MaxStoreFails
  /\ storeFails' = storeFails \cup {job.attemptsMade}

UNCHANGED_store ==
  UNCHANGED <<state, marker, job, seeded, posts, cpc, observed, resp, req, dup,
              submits, pendingWrites, postFails, crashes, expiries, removals,
              attempt, postedTx, accepted, enqueueFails, call, delays,
              phase, pool, keyspace, view, stamps>>

\* line 47: setState(PROCESSING) rejects inside the outer try
WorkerSetProcessingFails ==
  /\ wpc = "setProcessing"
  /\ StoreMayFail
  /\ wpc' = "catch"
  /\ UNCHANGED_store

\* lines 54, 61, 74: setState(COMPLETED) rejects; line 61 is inside the inner
\* try, whose catch takes the rejection for a failed POST (sleep, then the
\* verification GET); lines 54 and 74 are caught by the outer catch
WorkerSetCompletedFails ==
  /\ wpc = "setCompleted"
  /\ StoreMayFail
  /\ wpc' = IF attempt.gets = 1 /\ attempt.posts = 1 THEN "verify" ELSE "catch"
  /\ UNCHANGED_store

\* lines 88, 97: setState rejects inside the outer catch; the rejection
\* leaves processTransaction in place of the error caught
WorkerCatchFails ==
  /\ wpc = "catch"
  /\ StoreMayFail
  /\ wpc' = "throw"
  /\ UNCHANGED_store

StoreNext ==
  \/ SubmitIsProcessed(1)
  \/ SubmitReplay(1)
  \/ SubmitExists(1)
  \/ SubmitSetex(1)
  \/ SubmitSetPending(1)
  \/ SubmitEnqueue(1)
  \/ SubmitQueued(1)
  \/ Deliver
  \/ PromoteDelayed
  \/ WorkerSetProcessing
  \/ WorkerSetProcessingFails
  \/ WorkerGet
  \/ WorkerPost
  \/ WorkerVerify
  \/ WorkerSetCompleted
  \/ WorkerSetCompletedFails
  \/ WorkerCatch
  \/ WorkerCatchFails
  \/ WorkerReturn
  \/ WorkerThrow

StoreFailSpec == Init /\ [][StoreNext]_vars

\* ------------------------------------------------------- gracefulShutdown

UNCHANGED_process ==
  UNCHANGED <<state, marker, job, seeded, posts, wpc, cpc, observed, resp, req, dup,
              submits, pendingWrites, postFails, crashes, expiries, removals,
              attempt, postedTx, accepted, enqueueFails, call, delays,
              storeFails, pool, keyspace, view, stamps>>

\* SIGTERM or SIGINT: gracefulShutdown calls fastify.close(), after which the
\* server takes no new request
Signal ==
  /\ phase = "running"
  /\ phase' = "closing"
  /\ UNCHANGED_process

\* fastify.close() resolved (the requests in progress were answered):
\* process.exit(0)
Exit ==
  /\ phase = "closing"
  /\ \A c \in Clients : cpc[c] = "idle"
  /\ phase' = "exited"
  /\ UNCHANGED_process

\* the process is still there to run its callbacks
Alive == phase # "exited"

ShutdownNext ==
  \/ Signal
  \/ Exit
  \/ phase = "running" /\ SubmitIsProcessed(1)
  \/ Alive /\ SubmitReplay(1)
  \/ Alive /\ SubmitExists(1)
  \/ Alive /\ SubmitSetex(1)
  \/ Alive /\ SubmitSetPending(1)
  \/ Alive /\ SubmitEnqueue(1)
  \/ Alive /\ SubmitQueued(1)
  \/ Alive /\ Deliver
  \/ Alive /\ PromoteDelayed
  \/ Alive /\ WorkerSetProcessing
  \/ Alive /\ WorkerGet
  \/ Alive /\ WorkerPost
  \/ Alive /\ WorkerVerify
  \/ Alive /\ WorkerSetCompleted
  \/ Alive /\ WorkerCatch
  \/ Alive /\ WorkerReturn
  \/ Alive /\ WorkerThrow

ShutdownSpec == Init /\ [][ShutdownNext]_vars

\* ------------------------------------------------------------- WorkerPool

UNCHANGED_pool ==
  UNCHANGED <<state, marker, job, seeded, posts, wpc, cpc, observed, resp, req, dup,
              submits, pendingWrites, postFails, crashes, expiries, removals,
              attempt, postedTx, accepted, enqueueFails, call, delays,
              phase, storeFails, keyspace, view, stamps>>

\* WorkerPool.getWorkerCount: this.workers.length
getWorkerCount == pool.workers

\* WorkerPool.start: new TransactionWorker(...) is pushed to this.workers;
\* its BullMQ Worker starts consuming at once
start ==
  /\ pool.starts < MaxStarts
  /\ pool' = [pool EXCEPT !.starts = @ + 1, !.workers = @ + 1, !.live = @ + 1]
  /\ UNCHANGED_pool

\* WorkerPool.stop up to its await: close() is called on every worker that
\* is in this.workers now; a closing worker takes no new job
stopCloses ==
  /\ ~pool.stopping
  /\ pool' = [pool EXCEPT !.stopping = TRUE, !.closing = pool.workers]
  /\ UNCHANGED_pool

\* WorkerPool.stop after its await: the workers closed have ended their
\* jobs, this.workers = []
stopReturns ==
  /\ pool.stopping
  /\ pool.active <= (pool.live - pool.closing) * workerConcurrency
  /\ pool' = [pool EXCEPT !.stopping = FALSE, !.closing = 0, !.workers = 0,
                          !.live = @ - pool.closing]
  /\ UNCHANGED_pool

\* a Worker that is not closing and has a free slot (concurrency) takes a job
Reserve ==
  /\ pool.live > pool.closing
  /\ pool.active < pool.live * workerConcurrency
  /\ pool' = [pool EXCEPT !.active = @ + 1]
  /\ UNCHANGED_pool

\* processTransaction of a job settles
Finish ==
  /\ pool.active > 0
  /\ pool' = [pool EXCEPT !.active = @ - 1]
  /\ UNCHANGED_pool

PoolNext == start \/ stopCloses \/ stopReturns \/ Reserve \/ Finish

PoolSpec == Init /\ [][PoolNext]_vars

\* ------------------------------------------------------ several ids at once

UNCHANGED_keys ==
  UNCHANGED <<state, marker, job, seeded, posts, wpc, cpc, observed, resp, req, dup,
              submits, pendingWrites, postFails, crashes, expiries, removals,
              attempt, postedTx, accepted, enqueueFails, call, delays,
              phase, storeFails, pool, view, stamps>>

\* submitTransaction for one id, run without interruption: replay when the
\* record is terminal, 'already queued' when the marker is there, else the
\* marker, the pending record and the job (jobId = transaction.id)
submitTransaction(id) ==
  /\ keyspace' =
       IF get(keyspace.redis, stateKey(id)) \in Terminal
            \/ generateIdempotencyKey(id) \in DOMAIN keyspace.redis
         THEN [keyspace EXCEPT !.last = id]
         ELSE [keyspace EXCEPT
                 !.last = id,
                 !.redis = put(put(@, generateIdempotencyKey(id), "1"),
                               stateKey(id), PENDING),
                 !.jobs = IF id \in DOMAIN @ THEN @ ELSE put(@, id, "waiting")]
  /\ keyspace' # keyspace
  /\ UNCHANGED_keys

\* getTransactionStatus for one id: a read of its record
getTransactionStatusOf(id) ==
  /\ keyspace' = [keyspace EXCEPT !.last = id]
  /\ keyspace' # keyspace
  /\ UNCHANGED_keys

\* processTransaction of the job of one id that ends well: PROCESSING, the
\* GET, the POST unless the GET found a record, COMPLETED
processTransaction(id) ==
  /\ get(keyspace.jobs, id) = "waiting"
  /\ keyspace' = [keyspace EXCEPT
                    !.last = id,
                    !.redis = put(@, stateKey(id), COMPLETED),
                    !.downstream = IF requestPath(id) \in @ THEN @ ELSE @ \cup {id},
                    !.jobs = put(@, id, "completed")]
  /\ UNCHANGED_keys

\* processTransaction of the job of one id that throws: the record is left
\* in processing and the job waits for its retry
processTransactionThrows(id) ==
  /\ get(keyspace.jobs, id) = "waiting"
  /\ keyspace' = [keyspace EXCEPT
                    !.last = id,
                    !.redis = put(@, stateKey(id), PROCESSING)]
  /\ keyspace' # keyspace
  /\ UNCHANGED_keys

\* the TTL of the marker of one id runs out
expire(id) ==
  /\ generateIdempotencyKey(id) \in DOMAIN keyspace.redis
  /\ keyspace' = [keyspace EXCEPT
                    !.last = id,
                    !.redis = del(@, generateIdempotencyKey(id))]
  /\ UNCHANGED_keys

KeyNext ==
  \/ \E id \in Ids : submitTransaction(id)
  \/ \E id \in Ids : getTransactionStatusOf(id)
  \/ \E id \in Ids : processTransaction(id)
  \/ \E id \in Ids : processTransactionThrows(id)
  \/ \E id \in Ids : expire(id)

KeySpec == Standalone /\ [][KeyNext]_vars

\* ------------------------------------ timestamps of the record and responses

UNCHANGED_stamps ==
  UNCHANGED <<state, marker, job, seeded, posts, wpc, cpc, observed, resp, req, dup,
              submits, pendingWrites, postFails, crashes, expiries, removals,
              attempt, postedTx, accepted, enqueueFails, call, delays,
              phase, storeFails, pool, keyspace>>

\* time passes
Tick ==
  /\ stamps.clock < MaxClock
  /\ stamps' = [stamps EXCEPT !.clock = @ + 1]
  /\ UNCHANGED view /\ UNCHANGED_stamps

\* setState line 181: now = new Date().toISOString()
setStateNow(w) ==
  /\ stamps.calls[w].pc = "idle"
  /\ stamps.writes < MaxWrites
  /\ \E status \in {PENDING, PROCESSING, COMPLETED, FAILED} :
       stamps' = [stamps EXCEPT
                    !.writes = @ + 1,
                    !.calls[w] = [pc |-> "get", now |-> stamps.clock,
                                  status |-> status, existing |-> 0]]
  /\ UNCHANGED view /\ UNCHANGED_stamps

\* setState line 184: existing = await this.getState(transactionId)
setStateGet(w) ==
  /\ stamps.calls[w].pc = "get"
  /\ stamps' = [stamps EXCEPT
                  !.calls[w].pc = "setex",
                  !.calls[w].existing =
                     IF stamps.record = <<>> THEN 0 ELSE stamps.record.createdAt]
  /\ UNCHANGED view /\ UNCHANGED_stamps

\* setState lines 186-195: createdAt: existing?.createdAt || now,
\* updatedAt: now, then redis.setex
setStateSetex(w) ==
  /\ stamps.calls[w].pc = "setex"
  /\ stamps' = [stamps EXCEPT
                  !.calls[w] = NoSetState,
                  !.record =
                     [status |-> stamps.calls[w].status,
                      createdAt |-> IF stamps.calls[w].existing # 0
                                      THEN stamps.calls[w].existing
                                      ELSE stamps.calls[w].now,
                      updatedAt |-> stamps.calls[w].now]]
  /\ UNCHANGED view /\ UNCHANGED_stamps

\* getTransactionStatus lines 206-215: submittedAt is createdAt, completedAt
\* is updatedAt when the status is completed or failed
statusViewCompletedOnly(r) ==
  [source |-> "GetStatus", status |-> r.status, submittedAt |-> r.createdAt,
   completedAt |-> IF r.status = COMPLETED THEN {r.updatedAt} ELSE {}]
statusView(r) ==
  [source |-> "GetStatus", status |-> r.status, submittedAt |-> r.createdAt,
   completedAt |-> IF r.status = COMPLETED \/ r.status = FAILED
                     THEN {r.updatedAt} ELSE {}]

\* submitTransaction lines 131-143: the 'already processed' response built
\* from the record read again after isProcessed
replayView(r) ==
  [source |-> "replay", status |-> r.status, submittedAt |-> r.createdAt,
   completedAt |-> IF r.status = COMPLETED \/ r.status = FAILED
                     THEN {r.updatedAt} ELSE {}]

\* GET /api/transactions/:id for an id that has a record
GetStatusView ==
  /\ stamps.record # <<>>
  /\ view' = statusView(stamps.record)
  /\ view' # view
  /\ UNCHANGED stamps /\ UNCHANGED_stamps

\* a Submit that found the id processed answers from the record
ReplayView ==
  /\ stamps.record # <<>>
  /\ view' = replayView(stamps.record)
  /\ view' # view
  /\ UNCHANGED stamps /\ UNCHANGED_stamps

StampNext ==
  \/ Tick
  \/ \E w \in Writers : setStateNow(w)
  \/ \E w \in Writers : setStateGet(w)
  \/ \E w \in Writers : setStateSetex(w)
  \/ GetStatusView
  \/ ReplayView

StampSpec == Standalone /\ [][StampNext]_vars

\* ------------------------------------------- the posting client on its own

UNCHANGED_gateway ==
  UNCHANGED <<state, marker, job, seeded, posts, wpc, cpc, observed, resp, req, dup,
              submits, pendingWrites, postFails, crashes, expiries, removals,
              attempt, postedTx, accepted, enqueueFails, delays>>

\* getTransaction(id): one fetch, mapped by getTransactionResult
ClientGet ==
  /\ \E a \in Answers :
       call' = [method |-> "GET", answer |-> a,
                result |-> getTransactionResult(a), requests |-> 1]
  /\ UNCHANGED_gateway /\ UNCHANGED <<phase, storeFails, pool, keyspace, view, stamps>>

\* postTransaction(transaction): one fetch, mapped by postTransactionResult
ClientPost ==
  /\ \E a \in Answers :
       call' = [method |-> "POST", answer |-> a,
                result |-> postTransactionResult(a), requests |-> 1]
  /\ UNCHANGED_gateway /\ UNCHANGED <<phase, storeFails, pool, keyspace, view, stamps>>

ClientNext == ClientGet \/ ClientPost

ClientSpec == Init /\ [][ClientNext]_vars

TypeOK ==
  /\ state.status \in {"none", PENDING, PROCESSING, COMPLETED, FAILED}
  /\ marker \in BOOLEAN
  /\ job.state \in {"none", "waiting", "active", "delayed", "completed", "failed"}
  /\ job.attemptsMade \in 0 .. maxRetries
  /\ wpc \in {"idle", "setProcessing", "get", "post", "verify", "setCompleted",
              "catch", "return", "throw"}
  /\ (wpc # "idle") <=> (job.state = "active")

\* ------------------------------------------------------------- properties

AllIdle == \A c \in Clients : cpc[c] = "idle"

\* the queue will not deliver the job again and no request is in progress
Quiescent ==
  /\ AllIdle
  /\ wpc = "idle"
  /\ pendingWrites >= 1
  /\ \/ job.state \in {"completed", "failed"}
     \/ job.state = "none" /\ removals >= 1

CrashTolerance_C2 ==
  (crashes >= 1 /\ submits = 1 /\ Quiescent)
    => (Records <= 1 /\ state.status \in Terminal)

Liveness_C4 ==
  (submits = 1 /\ pendingWrites = 1 /\ AllIdle)
    ~> (state.status \in Terminal \/ submits > 1 \/ crashes > 0 \/ enqueueFails > 0)

\* C5 (persistent failure): when every attempt delivered by the queue ended in
\* a POST that failed without writing, the job is failed, the state record has
\* status failed with the max-retries error, and the downstream holds nothing.
PersistentFailure_C5 ==
  (job.state = "failed" /\ job.attemptsMade = maxRetries /\ postFails = maxRetries
     /\ crashes = 0 /\ submits = 1 /\ AllIdle)
    => (state.status = FAILED /\ state.error = "Failed after" /\ Records = 0)

\* C6 (P2, recovery): when POST failed k >= 1 times without writing and then
\* took effect, the final state record is completed, the downstream holds
\* exactly one record, and the record's retryCount is at least k.
Recovery_C6 ==
  (job.state = "completed" /\ ~seeded /\ posts = 1 /\ postFails >= 1
     /\ postFails < maxRetries /\ crashes = 0 /\ submits = 1 /\ AllIdle)
    => /\ state.status = COMPLETED
       /\ Records = 1
       /\ \E r \in state.retryCount : r >= postFails

\* C7 (terminal statuses are absorbing): a state record with status completed
\* or failed keeps that status in every step.
TerminalAbsorbing_C7 ==
  [][(state.status \in Terminal) => (state'.status = state.status)]_vars

Rank(st) ==
  CASE st = PENDING -> 1
    [] st = PROCESSING -> 2
    [] st \in Terminal -> 3
    [] OTHER -> 0

\* C8 (P4, monotonicity): the statuses returned by successive GetStatus calls
\* never go back in the order pending < processing < {completed, failed}.
Monotone_C8 == [][Rank(observed') >= Rank(observed)]_vars

\* final status and number of downstream records a single Submit can end with
SingleSubmitOutcomes ==
  {<<COMPLETED, 1>>, <<PROCESSING, 0>>, <<PROCESSING, 1>>}

\* every behaviour with exactly one Submit ends in one of these outcomes
SingleSubmitCovered ==
  (Quiescent /\ submits = 1) => (<<state.status, Records>> \in SingleSubmitOutcomes)

\* C9 (P3, idempotent Submit): n >= 1 Submit calls end with downstream records
\* and a final status that a single Submit call can end with.
IdempotentSubmit_C9 ==
  Quiescent => (<<state.status, Records>> \in SingleSubmitOutcomes)

\* C10 (first writer wins): of the concurrent Submit calls for an unseen id
\* exactly one writes the pending record; without an expiry of the marker at
\* most one Submit call ever writes it.
FirstWriterWins_C10 == (expiries = 0) => (pendingWrites <= 1)

\* the step is taken by request c inside submitTransaction
SubmitMoves(c) == cpc'[c] # cpc[c]

\* request c returns its response in this step
SubmitReturns(c) == cpc[c] # "idle" /\ cpc'[c] = "idle"

\* C11 (Submit writes the state record only at creation): once a state record
\* exists for the id, no step of a Submit call changes it, whatever the worker
\* does in between and also after the idempotency marker has expired.
SubmitWritesOnlyAtCreation_C11 ==
  [][\A c \in Clients :
       (SubmitMoves(c) /\ state.status # "none") => (state' = state)]_vars

DuplicateInFlight_C13 ==
  [][\A c \in Clients :
       (SubmitMoves(c) /\ dup[c])
         => /\ state' = state
            /\ job' = job
            /\ SubmitReturns(c)
                 => resp' = [code |-> 202, status |-> state.status,
                             message |-> QUEUED_MSG]]_vars

\* C14 (replay of a terminal record): a Submit for an id whose stored status
\* is completed or failed takes the 'already processed' branch, returns the
\* stored status with that message, and leaves the state record, the
\* idempotency marker and the queue unchanged.
ReplayTerminal_C14 ==
  [][\A c \in Clients :
       /\ (cpc[c] = "idle" /\ SubmitMoves(c) /\ state.status \in Terminal)
            => (cpc'[c] = "replay" /\ UNCHANGED <<state, marker, job>>)
       /\ (cpc[c] = "replay" /\ SubmitMoves(c))
            => /\ resp'.status = state.status
               /\ resp'.message = PROCESSED_MSG
               /\ UNCHANGED <<state, marker, job>>]_vars

\* a completed transaction was submitted again and answered from the record
Witness_C14 ==
  /\ resp.message = PROCESSED_MSG
  /\ resp.status = COMPLETED
  /\ state.status = COMPLETED
  /\ job.state = "completed"
  /\ submits >= 2

\* C15 as stated (HTTP status of a terminal replay): the response to a replay
\* of a terminal record has code 200, the response to a first acceptance or
\* to a duplicate of a non-terminal transaction has code 202.
TerminalReplayIs200_C15 ==
  /\ (resp.message = PROCESSED_MSG) => (resp.code = 200)
  /\ (resp.message \in {ACCEPTED_MSG, QUEUED_MSG}) => (resp.code = 202)

\* C15 as amended: every response of the handler to a valid Submit, the replay
\* of a terminal record included, has code 202.
EveryAnswerIs202_C15 ==
  (resp.message \in {ACCEPTED_MSG, QUEUED_MSG, PROCESSED_MSG}) => (resp.code = 202)

\* the replay of a completed record was answered
Witness_C15 ==
  /\ resp.message = PROCESSED_MSG
  /\ resp.status = COMPLETED
  /\ resp.code = 202

\* the ways a body can violate the schema
SchemaViolated(r) ==
  \/ r.missingField
  \/ r.idLen = 0
  \/ r.amount <= 0
  \/ r.currencyLen # 3
  \/ r.descLen = 0
  \/ ~r.isoTimestamp

\* C16 (validation failure has no side effects): a Submit whose body violates
\* the schema is answered with 400 and creates no state record, no
\* idempotency marker and no queue job.
ValidationNoSideEffects_C16 ==
  SchemaViolated(req)
    => /\ resp \in {NoResponse, invalidReply}
       /\ state = NoState
       /\ ~marker
       /\ job = NoJob
       /\ submits = 0

\* a body whose only fault is amount = 0 was rejected
Witness_C16 ==
  /\ req = [idLen |-> 1, amount |-> 0, currencyLen |-> 3, descLen |-> 1,
            isoTimestamp |-> TRUE, missingField |-> FALSE]
  /\ resp.code = 400

\* C17 (GetStatus is read-only): GetStatus returns the stored status, or
\* nothing when no record exists, and leaves the state store, the queue and
\* the downstream unchanged.
GetStatusReadOnly_C17 ==
  [][(observed' # observed)
       => /\ observed' = state.status
          /\ UNCHANGED <<state, marker, job, seeded, posts>>]_vars

\* GetStatus answered 404 first and the status of the record later
Witness_C17 ==
  /\ observed = PROCESSING
  /\ state.status = PROCESSING
  /\ job.state = "active"

\* C18 (queue deduplication): enqueue for an id whose job is waiting, delayed
\* or active changes nothing: the job keeps its transaction, its attempt
\* counter and its state.
QueueDedup_C18 ==
  [][\A c \in Clients :
       (cpc[c] = "enqueue" /\ SubmitMoves(c)
          /\ job.state \in {"waiting", "delayed", "active"})
         => (job' = job)]_vars

\* two Submit calls enqueued, the second while the job of the first waited
Witness_C18 ==
  /\ pendingWrites = 2
  /\ AllIdle
  /\ removals = 0
  /\ crashes = 0
  /\ job.state = "waiting"
  /\ job.attemptsMade = 0

\* executions of the job that threw, plus the one running or returned
Executions ==
  job.attemptsMade + (IF job.state \in {"active", "completed"} THEN 1 ELSE 0)

ReEnqueueAfterTerminal_C21 ==
  [][\A c \in Clients :
       (cpc[c] = "enqueue" /\ SubmitReturns(c) /\ enqueueFails' = enqueueFails
          /\ job.state \in {"completed", "failed"})
         => (job' = [state |-> "waiting", attemptsMade |-> 0,
                     attemptNumber |-> 0, transaction |-> c])]_vars

\* the catch branch of the execution in progress writes the state record
CatchWrites == wpc = "catch" /\ wpc' = "throw"

\* the execution in progress returned or threw to the queue
Settles == wpc \in {"return", "throw"} /\ wpc' = "idle" /\ crashes' = crashes

\* C22 (I3): retryCount never exceeds MAX_RETRIES, and the write that ends a
\* failed attempt sets status failed if and only if that attempt was the
\* MAX_RETRIES-th failed attempt of the job (every attempt that reaches the
\* catch branch counts as a pre-write failure).
RetryLimit_C22 ==
  /\ [](\A n \in state.retryCount : n <= maxRetries)
  /\ [][CatchWrites
          => ((state'.status = FAILED) <=> (job.attemptsMade + 1 = maxRetries))]_vars

\* C23 (retryCount is monotone): no write of the worker lowers the stored
\* retryCount or removes it once it was set, and it is never negative.
RetryCountMonotone_C23 ==
  [][(wpc' # wpc /\ state.retryCount # {})
       => /\ state'.retryCount # {}
          /\ \A a \in state.retryCount : \A b \in state'.retryCount :
               b >= a /\ b >= 0]_vars

EnqueueFailure_C25 ==
  /\ [][\A c \in Clients :
          (cpc[c] = "enqueue" /\ SubmitReturns(c) /\ enqueueFails' > enqueueFails)
            => /\ resp'.code = 503
               /\ UNCHANGED <<state, job, posts, postFails>>]_vars
  /\ []((accepted = 0) => (job = NoJob /\ posts = 0 /\ postFails = 0))

\* C26 as stated (posting client outcome mapping): getTransaction returns the
\* record exactly on 200, null exactly on 404 and raises otherwise;
\* postTransaction succeeds exactly on 2xx; each call is one HTTP request.
ClientMapping200_C26 ==
  /\ (call.method = "GET") =>
       /\ (call.result = "present")
            <=> (call.answer.kind = "response" /\ call.answer.status = 200)
       /\ (call.result = "absent")
            <=> (call.answer.kind = "response" /\ call.answer.status = 404)
       /\ call.result \in {"present", "absent", "error"}
  /\ (call.method = "POST") =>
       /\ (call.result = "success") <=> (call.answer.kind = "response" /\ ok(call.answer))
       /\ call.result \in {"success", "error"}
  /\ (call.method # "none") => (call.requests = 1)

\* C26 as amended: getTransaction returns the parsed body exactly when the
\* answer has a 2xx status and a JSON body, null exactly on 404 and raises
\* otherwise; postTransaction succeeds exactly on a 2xx answer with a JSON
\* body; each call is one HTTP request.
ClientMapping_C26 ==
  /\ (call.method = "GET") =>
       /\ (call.result = "present")
            <=> (call.answer.kind = "response" /\ ok(call.answer) /\ call.answer.json)
       /\ (call.result = "absent")
            <=> (call.answer.kind = "response" /\ call.answer.status = 404)
       /\ call.result \in {"present", "absent", "error"}
  /\ (call.method = "POST") =>
       /\ (call.result = "success")
            <=> (call.answer.kind = "response" /\ ok(call.answer) /\ call.answer.json)
       /\ call.result \in {"success", "error"}
  /\ (call.method # "none") => (call.requests = 1)

\* GET was answered 201 with a JSON body and the body was returned
Witness_C26 ==
  /\ call.method = "GET"
  /\ call.answer = [kind |-> "response", status |-> 201, json |-> TRUE]
  /\ call.result = "present"

\* C27 (attempt counter reaches the worker): on the delivery that follows k
\* failed attempts of the job, step 1 writes {status processing, retryCount k}.
AttemptReachesWorker_C27 ==
  [][(wpc = "setProcessing" /\ wpc' = "get")
       => (state' = setState(PROCESSING, "none", {job.attemptsMade}))]_vars

\* the GET made at position pos of the execution returned outcome
GetReturned(pos, outcome) ==
  /\ wpc = pos
  /\ attempt'.gets = attempt.gets + 1
  /\ attempt'.lastGet = outcome

PostWriteFailure_C29 ==
  /\ [][GetReturned("verify", "present")
          => /\ wpc' = "setCompleted"
             /\ attempt' = [gets |-> 2, posts |-> 1, lastGet |-> "present"]
             /\ UNCHANGED <<posts, postFails>>]_vars
  /\ [][(wpc = "setCompleted" /\ wpc' # wpc /\ crashes' = crashes /\ attempt.gets = 2)
          => (wpc' = "return" /\ state'.status = COMPLETED)]_vars
  /\ [][(Settles /\ attempt.gets = 2 /\ attempt.lastGet = "present")
          => (job'.state = "completed")]_vars
  /\ [][(job.state = "completed") => (job'.state \in {"completed", "none"})]_vars

\* the POST raised after the downstream wrote, the verification GET found the
\* record and completed was written
Witness_C29 ==
  /\ wpc = "return"
  /\ attempt = [gets |-> 2, posts |-> 1, lastGet |-> "present"]
  /\ state.status = COMPLETED
  /\ posts = 1
  /\ ~seeded

\* C30 (pre-write failure below the limit): when the POST failed, the
\* verification GET returned absent and the attempt number k is below
\* MAX_RETRIES, the attempt writes {status processing, retryCount k + 1, error}
\* and throws, and while attempts remain the queue schedules another delivery.
PreWriteRetry_C30 ==
  /\ [][(CatchWrites /\ attempt.posts = 1 /\ attempt.lastGet = "absent"
           /\ job.attemptsMade < maxRetries)
          => (state' = setState(PROCESSING, "Retrying", {job.attemptsMade + 1}))]_vars
  /\ [][(Settles /\ wpc = "throw" /\ attempt.lastGet = "absent"
           /\ job.attemptsMade + 1 < maxRetries)
          => (job'.state = "delayed")]_vars

QueueStateAgree_C32 ==
  (pendingWrites <= 1 /\ wpc = "idle")
    => /\ job.state = "failed" => state.status = FAILED
       /\ state.status = FAILED => job.state \notin {"completed", "delayed", "waiting"}

\* C34 (error tracks the last attempt): the record carries an error if and
\* only if the attempt that finished last failed: from the failure of an
\* attempt until the next attempt has finished the error is there, and after
\* a successful attempt it is not.
ErrorTracksLastAttempt_C34 ==
  (pendingWrites <= 1 /\ crashes = 0)
    => /\ (job.attemptsMade >= 1 /\ job.state \in {"delayed", "waiting", "active", "failed"}
             /\ wpc \notin {"return", "throw"})
            => state.error # "none"
       /\ job.state = "completed" => state.error = "none"
       /\ state.error # "none" => (job.attemptsMade >= 1 \/ wpc = "throw")

\* C39 (exponential backoff): calculateBackoffDelay(n, base) is base * 2^n
\* (1000, 2000, 4000, 8000 for base 1000); between a failed POST and the
\* verification GET the worker waits that delay for the number of the attempt
\* it is running; the delays before successive deliveries of a failing job
\* strictly increase.
ExponentialBackoff_C39 ==
  /\ calculateBackoffDelay(0, baseDelayMs) = 1000
  /\ calculateBackoffDelay(1, baseDelayMs) = 2000
  /\ calculateBackoffDelay(2, baseDelayMs) = 4000
  /\ calculateBackoffDelay(3, baseDelayMs) = 8000
  /\ \A n \in 0 .. maxRetries :
       calculateBackoffDelay(n + 1, baseDelayMs) = 2 * calculateBackoffDelay(n, baseDelayMs)
  /\ delays.verify # 0 => delays.verify = calculateBackoffDelay(job.attemptsMade, baseDelayMs)
  /\ \A i, k \in DOMAIN delays.backoff : i < k => delays.backoff[i] < delays.backoff[k]

\* C33 (state-store failure inside the worker): when a StateService call fails
\* during an execution (at step 1, at a completed write, or inside the
\* failure handler), that execution ends by throwing to the queue, which
\* schedules a retry while attempts remain, and the job is executed at most
\* MAX_RETRIES times.
StoreFailureNacks_C33 ==
  /\ [][(Settles /\ job.attemptsMade \in storeFails)
          => (wpc = "throw" /\ job'.state \in {"delayed", "failed"})]_vars
  /\ [](Executions <= maxRetries)

\* C35 (completedAt exactly for terminal records): the response of GetStatus
\* and the response of a Submit replay carry completedAt if and only if the
\* status they report is completed or failed.
CompletedAtIffTerminal_C35 ==
  view.source # "none" => (view.completedAt # {} <=> view.status \in Terminal)

\* GetStatus reported a failed record with its completedAt
Witness_C35 ==
  /\ view.source = "GetStatus"
  /\ view.status = FAILED
  /\ view.completedAt # {}

\* C36 (submittedAt is stable): the createdAt of the record is fixed by the
\* first write and the same after every later setState of any writer in any
\* interleaving; createdAt <= updatedAt in the record, and submittedAt <=
\* completedAt in every response that carries both.
SubmittedAtStable_C36 ==
  /\ [][(stamps.record # <<>> /\ stamps'.record # <<>>)
          => stamps'.record.createdAt = stamps.record.createdAt]_vars
  /\ [](stamps.record # <<>> => stamps.record.createdAt <= stamps.record.updatedAt)
  /\ [](\A t \in view.completedAt : view.submittedAt <= t)

\* C37 (graceful shutdown): after a termination signal no new request is
\* taken, the process exits only when the worker execution in progress has
\* run to its end (a failed POST has had its verification GET and its state
\* write), and the jobs not started stay in the queue.
GracefulShutdown_C37 ==
  /\ [][phase # "running" => submits' = submits]_vars
  /\ [](phase = "exited" => wpc = "idle")
  /\ [][phase = "exited" => job' = job]_vars

\* C38 (bounded worker concurrency): after any sequence of start and stop
\* calls at most workerConcurrency jobs are being processed at the same time;
\* getWorkerCount is 0 before the first start and after every stop, and 1
\* after a start.
BoundedConcurrency_C38 ==
  /\ [](pool.active <= workerConcurrency)
  /\ [](pool.starts = 0 => getWorkerCount = 0)
  /\ [][pool'.starts > pool.starts => pool'.workers = 1]_vars
  /\ [][(pool.stopping /\ ~pool'.stopping) => pool'.workers = 0]_vars

\* what is stored for one id: its state record, its idempotency marker, its
\* queue job and its downstream record
Owned(k, id) ==
  <<get(k.redis, stateKey(id)), get(k.redis, generateIdempotencyKey(id)),
    get(k.jobs, id), id \in k.downstream>>

\* C40 (independence of ids): Submit, GetStatus and worker processing of one
\* id leave the state record, the idempotency marker, the queue job and the
\* downstream record of every other id unchanged; the keys of distinct ids
\* are distinct, no idempotency key is a state key, and every key in the
\* store belongs to one id only.
IdsIndependent_C40 ==
  /\ [][\A b \in Ids :
          b # keyspace'.last => Owned(keyspace', b) = Owned(keyspace, b)]_vars
  /\ [](\A a, b \in Ids :
          /\ a # b => generateIdempotencyKey(a) # generateIdempotencyKey(b)
          /\ a # b => stateKey(a) # stateKey(b)
          /\ generateIdempotencyKey(a) # stateKey(b))
  /\ [](\A key \in DOMAIN keyspace.redis :
          Cardinality({id \in Ids : key \in {generateIdempotencyKey(id), stateKey(id)}}) = 1)

\* the job of one id was processed while another id was queued with its
\* marker and its pending record
Witness_C40 ==
  /\ keyspace.last = <<"a">>
  /\ Owned(keyspace, <<"a">>) = <<COMPLETED, "1", "completed", TRUE>>
  /\ Owned(keyspace, <<"a", "b">>) = <<PENDING, "1", "waiting", FALSE>>

====
